---- MODULE Spec2Model ----
(***************************************************************************)
(* A model of src/persistence.rs of cleora: the identifier map             *)
(* (InMemoryEntityMappingPersistor) and the three embedding writers        *)
(* (TextFileVectorPersistor, ParquetVectorPersistor, NpyPersistor).        *)
(*                                                                         *)
(* Conventions.                                                            *)
(*  - An f32 is modelled by the integer 2*v (so 3 is 1.5 and -4 is -2.0);  *)
(*    every input value is a multiple of 0.5 of small magnitude.           *)
(*  - A byte stream of the text writer and of the entity side file is a    *)
(*    TLA+ string; the two binary array files are sequences of cells, one  *)
(*    cell per array element, a header being HdrCells cells.               *)
(*  - Rust indices are 0-based, TLA+ sequences 1-based: row r of the       *)
(*    matrix is element r + 1 of a sequence of rows.                       *)
(*  - A call ends "Ok", "Err" (an io::Error value returned to the caller)  *)
(*    or "Panic" (the thread unwinds; the run is aborted).                 *)
(***************************************************************************)
EXTENDS Integers, Sequences, FiniteSets, TLC

VARIABLES
    backend,                          \* which constructor built the writer
    produce_entity_occurrence_count,  \* constructor flag (text, npy)
    buf_writer,                       \* TextFileVectorPersistor.buf_writer
    writer,                           \* ParquetVectorPersistor.writer
    entities,                         \* NpyPersistor.entities
    occurences,                       \* NpyPersistor.occurences
    array_file,                       \* NpyPersistor.array_file (and the file it names)
    array_write_context,              \* NpyPersistor.array_write_context
    mmaps,                            \* every MmapMut created so far (the heap)
    occurences_buf,                   \* NpyPersistor.occurences_buf
    entities_buf,                     \* NpyPersistor.entities_buf
    status,                           \* "live", "panicked", "killed" or "dropped"
    history,                          \* the calls made so far, with their results
    entity_mappings,                  \* InMemoryEntityMappingPersistor.entity_mappings
    rwlock,                           \* the state of the RwLock around it
    pc,                               \* per thread: where it is in its call
    call,                             \* per thread: the call it is in
    ret,                              \* per thread: what its last call returned
    completed                         \* per hash: the inserts that have returned

writerVars == <<backend, produce_entity_occurrence_count, buf_writer, writer,
                entities, occurences, array_file, array_write_context, mmaps,
                occurences_buf, entities_buf, status, history>>
mapVars == <<entity_mappings, rwlock, pc, call, ret, completed>>
vars == <<writerVars, mapVars>>

---------------------------------------------------------------------------
(* Bounds of the model. *)

\* The number of calls made on one writer.
MaxCalls == 3
\* The capacity of a BufWriter (std's default is 8192 bytes), scaled down so
\* that a record does not fit and the buffer is flushed in mid-record.
BufCapacity == 8
\* The length of a binary array header in cells (128 bytes, 32 f32 cells, in
\* the format), scaled down.
HdrCells == 1

---------------------------------------------------------------------------
(* Formatting. *)

Digit(d) ==
    CASE d = 0 -> "0" [] d = 1 -> "1" [] d = 2 -> "2" [] d = 3 -> "3"
      [] d = 4 -> "4" [] d = 5 -> "5" [] d = 6 -> "6" [] d = 7 -> "7"
      [] d = 8 -> "8" [] d = 9 -> "9"

\* Display of an unsigned integer: its decimal digits, no padding.
RECURSIVE Dec(_)
Dec(n) == IF n < 10 THEN Digit(n) ELSE Dec(n \div 10) \o Digit(n % 10)

Abs(h) == IF h < 0 THEN 0 - h ELSE h

\* ryu's shortest round-trip rendering of the f32 h/2, for 0 < |h/2| < 1e16
\* or h = 0: sign, integer part, ".", and the fraction "0" or "5".
FormatFinite(h) ==
    (IF h < 0 THEN "-" ELSE "") \o Dec(Abs(h) \div 2) \o "."
        \o (IF Abs(h) % 2 = 1 THEN "5" ELSE "0")

---------------------------------------------------------------------------
(* std::io::BufWriter<File>: buf is the in-memory buffer, inner the bytes  *)
(* handed to the file, open whether the file is open.  io is "ok" or       *)
(* "fail": whether the file accepts writes during this call; a failing     *)
(* write accepts nothing.                                                  *)

NewBufWriter(empty) == [buf |-> empty, inner |-> empty, open |-> TRUE]

\* BufWriter::flush_buf
FlushBuf(bw, empty, io) ==
    IF Len(bw.buf) = 0 THEN [bw |-> bw, ok |-> TRUE]
    ELSE IF io = "fail" THEN [bw |-> bw, ok |-> FALSE]
    ELSE [bw |-> [bw EXCEPT !.inner = bw.inner \o bw.buf, !.buf = empty],
          ok |-> TRUE]

\* BufWriter::write_all (and write_all_cold)
WriteAll(bw, data, empty, io) ==
    LET spare == BufCapacity - Len(bw.buf) IN
    IF Len(data) < spare
    THEN [bw |-> [bw EXCEPT !.buf = bw.buf \o data], ok |-> TRUE]
    ELSE LET f == IF Len(data) > spare THEN FlushBuf(bw, empty, io)
                  ELSE [bw |-> bw, ok |-> TRUE] IN
         IF ~f.ok THEN f
         ELSE IF Len(data) >= BufCapacity
         THEN IF io = "fail" /\ Len(data) > 0 THEN [bw |-> f.bw, ok |-> FALSE]
              ELSE [bw |-> [f.bw EXCEPT !.inner = f.bw.inner \o data], ok |-> TRUE]
         ELSE [bw |-> [f.bw EXCEPT !.buf = f.bw.buf \o data], ok |-> TRUE]

\* A run of write_all calls, each followed by `?`: the first failure returns.
RECURSIVE WriteAllSeq(_, _, _, _)
WriteAllSeq(bw, pieces, empty, io) ==
    IF pieces = <<>> THEN [bw |-> bw, ok |-> TRUE]
    ELSE LET r == WriteAll(bw, Head(pieces), empty, io) IN
         IF r.ok THEN WriteAllSeq(r.bw, Tail(pieces), empty, io) ELSE r

\* BufWriter::flush
Flush(bw, empty, io) == FlushBuf(bw, empty, io)

\* Drop of a BufWriter<File>: the buffer is flushed, an error ignored, and the
\* file is closed.
DropBufWriter(bw, empty, io) == [FlushBuf(bw, empty, io).bw EXCEPT !.open = FALSE]

\* Everything written to the BufWriter so far, flushed or not.
Stream(bw) == bw.inner \o bw.buf

---------------------------------------------------------------------------
(* The calls a producer makes. *)

\* The file system accepts every write of a call ("ok") or none ("fail"); the
\* model follows a run up to its first failed call and on from it with a
\* healthy file system.
IoOutcomes ==
    IF \A k \in 1..Len(history) : history[k].io = "ok" THEN {"ok", "fail"}
    ELSE {"ok"}

\* (entity_count, dimension)
ShapeInputs == {<<2, 2>>, <<0, 2>>, <<1, 1>>}

\* (entity, occur_count, vector): the record ("x", 5, [1.5, -2.0]), a record
\* with an empty name, a vector of length 1, a vector of length 0.
RecordInputs ==
    { <<"x", 5, <<3, -4>>>>, <<"", 12, <<2, 6>>>>, <<"x", 0, <<1>>>>, <<"y", 7, <<>>>> }

\* (entities, occur_counts, vectors) with vectors[j][i] coordinate j of record
\* i: the batch a=(1,[1.0,3.0]), b=(2,[2.0,4.0]), the empty batch, a batch of
\* two records of dimension 1, a batch of one record of dimension 2.
ChunkInputs ==
    { << <<"a", "b">>, <<1, 2>>, << <<2, 4>>, <<6, 8>> >> >>,
      << <<>>, <<>>, << <<>>, <<>> >> >>,
      << <<"", "x">>, <<0, 12>>, << <<1, -4>> >> >>,
      << <<"x">>, <<5>>, << <<3>>, <<-4>> >> >> }

CanCall == status = "live" /\ Len(history) < MaxCalls

\* A call of the history: io is "failed" when a write to the file system
\* failed during the call.
Record(op, arg, res, io) == [op |-> op, arg |-> arg, res |-> res, io |-> io]

\* The call returns res, panics ("Panic") or the process is killed by a bus
\* error ("Sigbus"): history and status.
Returns(op, arg, res, io) ==
    /\ history' = Append(history, Record(op, arg, res, io))
    /\ status' = CASE res = "Panic" -> "panicked"
                   [] res = "Sigbus" -> "killed"
                   [] OTHER -> status

ResultOf(ok) == IF ok THEN "Ok" ELSE "Err"

IoOf(ok) == IF ok THEN "ok" ELSE "failed"

---------------------------------------------------------------------------
(* TextFileVectorPersistor *)

\* The coordinates of a vector, each after a space.
RECURSIVE VectorPieces(_)
VectorPieces(vector) ==
    IF vector = <<>> THEN <<>>
    ELSE <<" ", FormatFinite(Head(vector))>> \o VectorPieces(Tail(vector))

\* The write_all calls of put_data, in order.
TextRecordPieces(flag, entity, occur_count, vector) ==
    <<"\n", entity>>
        \o (IF flag THEN <<" ", Dec(occur_count)>> ELSE <<>>)
        \o VectorPieces(vector)

\* Mutant: the header is written with its line break.
M_TextPutMetadataOn(bw, entity_count, dimension, io) ==
    WriteAllSeq(bw, <<Dec(entity_count), " ", Dec(dimension), "\n">>, "", io)

\* put_metadata on the BufWriter
TextPutMetadataOn(bw, entity_count, dimension, io) ==
    WriteAllSeq(bw, <<Dec(entity_count), " ", Dec(dimension)>>, "", io)

\* put_data on the BufWriter
TextPutDataOn(bw, flag, entity, occur_count, vector, io) ==
    WriteAllSeq(bw, TextRecordPieces(flag, entity, occur_count, vector), "", io)

\* finish on the BufWriter
TextFinishOn(bw, io) == WriteAll(bw, "\n", "", io)

\* Mutant: record i takes column i as its vector.
M_ChunkVector(vectors, i) ==
    IF i <= Len(vectors) THEN [ok |-> TRUE, v |-> vectors[i]]
    ELSE [ok |-> FALSE, v |-> <<>>]

\* The vector of record i of a chunk: x[i] of every column x, a panic when a
\* column is too short.
ChunkVector(vectors, i) ==
    IF \A j \in 1..Len(vectors) : i <= Len(vectors[j])
    THEN [ok |-> TRUE, v |-> [j \in 1..Len(vectors) |-> vectors[j][i]]]
    ELSE [ok |-> FALSE, v |-> <<>>]

\* The loop of put_data_chunk from record i on: put_data(..).unwrap() per
\* record, a panic on an index out of range or on an Err.
RECURSIVE TextChunkLoop(_, _, _, _, _)
TextChunkLoop(bw, flag, chunk, i, io) ==
    IF i > Len(chunk[1]) THEN [bw |-> bw, res |-> "Ok", io |-> "ok"]
    ELSE IF i > Len(chunk[2]) \/ ~ChunkVector(chunk[3], i).ok
    THEN [bw |-> bw, res |-> "Panic", io |-> "ok"]
    ELSE LET r == TextPutDataOn(bw, flag, chunk[1][i], chunk[2][i],
                                ChunkVector(chunk[3], i).v, io) IN
         IF r.ok THEN TextChunkLoop(r.bw, flag, chunk, i + 1, io)
         ELSE [bw |-> r.bw, res |-> "Panic", io |-> "failed"]

TextUnchanged ==
    UNCHANGED <<backend, produce_entity_occurrence_count, writer, entities,
                occurences, array_file, array_write_context, mmaps,
                occurences_buf, entities_buf, mapVars>>

TextPutMetadata ==
    \E shape \in ShapeInputs, io \in IoOutcomes :
        /\ backend = "text" /\ CanCall
        /\ LET r == TextPutMetadataOn(buf_writer, shape[1], shape[2], io) IN
            /\ buf_writer' = r.bw
            /\ Returns("put_metadata", shape, ResultOf(r.ok), IoOf(r.ok))
        /\ TextUnchanged

TextPutData ==
    \E rec \in RecordInputs, io \in IoOutcomes :
        /\ backend = "text" /\ CanCall
        /\ LET r == TextPutDataOn(buf_writer, produce_entity_occurrence_count,
                                  rec[1], rec[2], rec[3], io) IN
            /\ buf_writer' = r.bw
            /\ Returns("put_data", rec, ResultOf(r.ok), IoOf(r.ok))
        /\ TextUnchanged

TextPutDataChunk ==
    \E chunk \in ChunkInputs, io \in IoOutcomes :
        /\ backend = "text" /\ CanCall
        /\ LET r == TextChunkLoop(buf_writer, produce_entity_occurrence_count,
                                  chunk, 1, io) IN
            /\ buf_writer' = r.bw
            /\ Returns("put_data_chunk", chunk, r.res, r.io)
        /\ TextUnchanged

TextFinish ==
    \E io \in IoOutcomes :
        /\ backend = "text" /\ CanCall
        /\ LET r == TextFinishOn(buf_writer, io) IN
            /\ buf_writer' = r.bw
            /\ Returns("finish", <<>>, ResultOf(r.ok), IoOf(r.ok))
        /\ TextUnchanged

\* The writer goes out of scope (or the stack unwinds after a panic).
TextDrop ==
    \E io \in IoOutcomes :
        /\ backend = "text" /\ status \in {"live", "panicked"}
        /\ buf_writer' = DropBufWriter(buf_writer, "", io)
        /\ status' = "dropped"
        /\ UNCHANGED history
        /\ TextUnchanged

---------------------------------------------------------------------------
(* ndarray / ndarray_npy / memmap, as NpyPersistor uses them.  A file is   *)
(* [pos, cells, open]: the handle's cursor and the file's contents.        *)

\* File::create
NewFile == [pos |-> 0, cells |-> <<>>, open |-> TRUE]

F32(v) == <<"f4", v, 0>>
U32(c) == <<"u4", c, 0>>

Repeat(x, n) == [k \in 1..n |-> x]

\* The header of an array file: element type and shape.
NpyHeader(descr, shape) == Repeat(<<"header", descr, shape>>, HdrCells)

\* ndarray_npy::write_zeroed_npy(&file, [n, d]): the header is written at the
\* handle's cursor, the file is cut there and extended by n * d zeros.
WriteZeroedNpy(file, n, d) ==
    [file EXCEPT !.cells = SubSeq(file.cells, 1, file.pos)
                               \o NpyHeader("f4", <<n, d>>)
                               \o Repeat(F32(0), n * d),
                 !.pos = file.pos + HdrCells]

\* Option::None
NoContext == [some |-> FALSE, mmap_ptr |-> 0, mmap_data |-> <<>>]

\* ArrayViewMut2::view_mut_npy over a mapping of `cells`: the shape the header
\* at the start of the file declares, provided the rest of the file is exactly
\* that many elements.
ViewMutNpy(cells) ==
    LET shape == cells[1][3] IN
    IF Len(cells) - HdrCells = shape[1] * shape[2]
    THEN [ok |-> TRUE, shape |-> shape]
    ELSE [ok |-> FALSE, shape |-> <<>>]

\* MmapMut::map_mut(&file), boxed and leaked: a new mapping of the whole
\* file, no view of it yet.
MapMut(heap, cells) ==
    Append(heap, [len |-> Len(cells), state |-> "mapped", view |-> "none"])

\* A view made by view_mut_npy borrows mapping p.
ViewOf(heap, p) == [heap EXCEPT ![p].view = "alive"]

\* self.mmap_data = None: the view of mapping p is dropped.
DropView(heap, p) == [heap EXCEPT ![p].view = "dropped"]

\* drop_in_place(self.mmap_ptr): mapping p is unmapped and freed.
DropInPlace(heap, p) ==
    [heap EXCEPT ![p].state =
        IF @ # "mapped" THEN "released twice"
        ELSE IF heap[p].view = "alive" THEN "unmapped under its view"
        ELSE "unmapped"]

\* Mutant: the mapping is dropped before the view.
M_DropContext(heap, ctx) ==
    IF ctx.some THEN DropView(DropInPlace(heap, ctx.mmap_ptr), ctx.mmap_ptr)
    ELSE heap

\* Drop of an OwnedMmapArrayViewMut: the view goes first, then the mapping is
\* dropped in place.
DropContext(heap, ctx) ==
    IF ctx.some THEN DropInPlace(DropView(heap, ctx.mmap_ptr), ctx.mmap_ptr)
    ELSE heap

\* Mutant: every record goes to row 0.
M_NextRow(names) == 0

\* The row the next record goes to.
NextRow(names) == Len(names)

\* The 1-based cell of the file that element (row, j) of the view is mapped to.
CellOf(shape, row, j) == HdrCells + row * shape[2] + j

\* ndarray's broadcast of a 1-dimensional array of length len to length d.
Broadcasts(len, d) == len = d \/ len = 1

\* Coordinate j of the row that assign() stores for `vector`.
Assigned(vector, j) == IF Len(vector) = 1 THEN vector[1] ELSE vector[j]

\* array.slice_mut(s![row, ..]).assign(&Array::from(vector)) through the
\* mapping: the stores reach the file where the file still has the cell.
AssignRow(cells, shape, row, vector) ==
    [c \in 1..Len(cells) |->
        IF \E j \in 1..shape[2] : c = CellOf(shape, row, j)
        THEN F32(Assigned(vector, c - CellOf(shape, row, 0)))
        ELSE cells[c]]

\* The stores of a row all fall inside the file as it is now.
RowInFile(cells, shape, row) == CellOf(shape, row, shape[2]) <= Len(cells)

\* Mutant: the index check accepts the row one past the last.
M_RowInView(shape, row) == row <= shape[1]

\* slice_mut(s![row, ..]) panics unless the view has the row.
RowInView(shape, row) == row < shape[1]

\* Mutant: the name is put in front of the names accumulated so far.
M_NpyPutDataOn(st, entity, occur_count, vector, fault) ==
    LET ctx == st.ctx
        row == NextRow(st.entities) IN
    IF ~ctx.some THEN [st |-> st, res |-> "Panic"]
    ELSE IF ~RowInView(ctx.mmap_data, row) THEN [st |-> st, res |-> "Panic"]
    ELSE IF ~Broadcasts(Len(vector), ctx.mmap_data[2]) THEN [st |-> st, res |-> "Panic"]
    ELSE IF ~RowInFile(st.cells, ctx.mmap_data, row) /\ fault = "sigbus"
    THEN [st |-> st, res |-> "Sigbus"]
    ELSE [st |-> [st EXCEPT !.cells = AssignRow(st.cells, ctx.mmap_data, row, vector),
                            !.entities = <<entity>> \o st.entities,
                            !.occurences = Append(st.occurences, occur_count)],
          res |-> "Ok"]

\* The accumulators and the file after put_data, and how the call ends.  A
\* store to a mapped page the file no longer backs kills the process or, on
\* the file's last page, is lost: fault is "sigbus" or "lost".
NpyPutDataOn(st, entity, occur_count, vector, fault) ==
    LET ctx == st.ctx
        row == NextRow(st.entities) IN
    IF ~ctx.some THEN [st |-> st, res |-> "Panic"]
    ELSE IF ~RowInView(ctx.mmap_data, row) THEN [st |-> st, res |-> "Panic"]
    ELSE IF ~Broadcasts(Len(vector), ctx.mmap_data[2]) THEN [st |-> st, res |-> "Panic"]
    ELSE IF ~RowInFile(st.cells, ctx.mmap_data, row) /\ fault = "sigbus"
    THEN [st |-> st, res |-> "Sigbus"]
    ELSE [st |-> [st EXCEPT !.cells = AssignRow(st.cells, ctx.mmap_data, row, vector),
                            !.entities = Append(st.entities, entity),
                            !.occurences = Append(st.occurences, occur_count)],
          res |-> "Ok"]

\* The loop of put_data_chunk from record i on.
RECURSIVE NpyChunkLoop(_, _, _, _)
NpyChunkLoop(st, chunk, i, fault) ==
    IF i > Len(chunk[1]) THEN [st |-> st, res |-> "Ok"]
    ELSE IF i > Len(chunk[2]) \/ ~ChunkVector(chunk[3], i).ok
    THEN [st |-> st, res |-> "Panic"]
    ELSE LET r == NpyPutDataOn(st, chunk[1][i], chunk[2][i],
                               ChunkVector(chunk[3], i).v, fault) IN
         IF r.res = "Ok" THEN NpyChunkLoop(r.st, chunk, i + 1, fault)
         ELSE [st |-> r.st, res |-> IF r.res = "Err" THEN "Panic" ELSE r.res]

\* serde_json::to_writer_pretty of a list of strings: the writes it makes.
RECURSIVE JsonElements(_, _)
JsonElements(names, first) ==
    IF names = <<>> THEN <<>>
    ELSE <<(IF first THEN "\n" ELSE ",\n"), "  ", "\"", Head(names), "\"">>
             \o JsonElements(Tail(names), FALSE)

\* Mutant: the closing bracket always goes on a line of its own.
M_JsonPretty(names) == <<"[">> \o JsonElements(names, TRUE) \o <<"\n", "]">>

\* The list as indented text: "[]" when it is empty.
JsonPretty(names) ==
    <<"[">> \o JsonElements(names, TRUE)
            \o (IF names = <<>> THEN <<>> ELSE <<"\n">>) \o <<"]">>

\* WriteNpyExt::write_npy of a 1-dimensional u32 array: header, data, flush.
WriteNpy(bw, counts, io) ==
    LET w == WriteAllSeq(bw, <<NpyHeader("u4", <<Len(counts)>>),
                               [k \in 1..Len(counts) |-> U32(counts[k])]>>,
                         <<>>, io) IN
    IF w.ok THEN Flush(w.bw, <<>>, io) ELSE w

NpyState == [ctx |-> array_write_context, cells |-> array_file.cells,
             entities |-> entities, occurences |-> occurences]

NpyUnchanged ==
    UNCHANGED <<backend, produce_entity_occurrence_count, buf_writer, writer,
                mapVars>>

NpyPutMetadata ==
    \E shape \in ShapeInputs, io \in IoOutcomes :
        /\ backend = "npy" /\ CanCall
        /\ IF io = "fail"
           THEN \* write_zeroed_npy fails: "Write zeroed npy error"
                /\ Returns("put_metadata", shape, "Err", "failed")
                /\ UNCHANGED <<array_file, array_write_context, mmaps>>
           ELSE LET file == WriteZeroedNpy(array_file, shape[1], shape[2])
                    heap == MapMut(mmaps, file.cells)
                    view == ViewMutNpy(file.cells) IN
                /\ array_file' = file
                /\ IF view.ok
                   THEN /\ array_write_context' =
                               [some |-> TRUE, mmap_ptr |-> Len(heap),
                                mmap_data |-> view.shape]
                        /\ mmaps' = DropContext(ViewOf(heap, Len(heap)),
                                                 array_write_context)
                        /\ Returns("put_metadata", shape, "Ok", "ok")
                   ELSE \* "Mmap view error": the new mapping stays leaked
                        /\ mmaps' = heap
                        /\ UNCHANGED array_write_context
                        /\ Returns("put_metadata", shape, "Err", "ok")
        /\ UNCHANGED <<entities, occurences, occurences_buf, entities_buf>>
        /\ NpyUnchanged

NpyPutData ==
    \E rec \in RecordInputs, fault \in {"sigbus", "lost"} :
        /\ backend = "npy" /\ CanCall
        /\ LET r == NpyPutDataOn(NpyState, rec[1], rec[2], rec[3], fault) IN
            /\ array_file' = [array_file EXCEPT !.cells = r.st.cells]
            /\ entities' = r.st.entities
            /\ occurences' = r.st.occurences
            /\ Returns("put_data", rec, r.res, "ok")
        /\ UNCHANGED <<array_write_context, mmaps, occurences_buf, entities_buf>>
        /\ NpyUnchanged

NpyPutDataChunk ==
    \E chunk \in ChunkInputs, fault \in {"sigbus", "lost"} :
        /\ backend = "npy" /\ CanCall
        /\ LET r == NpyChunkLoop(NpyState, chunk, 1, fault) IN
            /\ array_file' = [array_file EXCEPT !.cells = r.st.cells]
            /\ entities' = r.st.entities
            /\ occurences' = r.st.occurences
            /\ Returns("put_data_chunk", chunk, r.res, "ok")
        /\ UNCHANGED <<array_write_context, mmaps, occurences_buf, entities_buf>>
        /\ NpyUnchanged

\* Mutant: finish releases the mapping once the side files are written.
M_NpyFinish ==
    \E io \in IoOutcomes :
        /\ backend = "npy" /\ CanCall
        /\ LET e == WriteAllSeq(entities_buf, JsonPretty(entities), "", io) IN
            /\ entities_buf' = e.bw
            /\ IF e.ok /\ produce_entity_occurrence_count
               THEN LET o == WriteNpy(occurences_buf, occurences, io) IN
                    /\ occurences_buf' = o.bw
                    /\ Returns("finish", <<>>, ResultOf(o.ok), IoOf(o.ok))
               ELSE /\ UNCHANGED occurences_buf
                    /\ Returns("finish", <<>>, ResultOf(e.ok), IoOf(e.ok))
        /\ mmaps' = DropContext(mmaps, array_write_context)
        /\ array_write_context' = NoContext
        /\ UNCHANGED <<entities, occurences, array_file>>
        /\ NpyUnchanged

NpyFinish ==
    \E io \in IoOutcomes :
        /\ backend = "npy" /\ CanCall
        /\ LET e == WriteAllSeq(entities_buf, JsonPretty(entities), "", io) IN
            /\ entities_buf' = e.bw
            /\ IF e.ok /\ produce_entity_occurrence_count
               THEN LET o == WriteNpy(occurences_buf, occurences, io) IN
                    /\ occurences_buf' = o.bw
                    /\ Returns("finish", <<>>, ResultOf(o.ok), IoOf(o.ok))
               ELSE /\ UNCHANGED occurences_buf
                    /\ Returns("finish", <<>>, ResultOf(e.ok), IoOf(e.ok))
        /\ UNCHANGED <<entities, occurences, array_file, array_write_context, mmaps>>
        /\ NpyUnchanged

\* The writer goes out of scope: its fields are dropped in declaration order.
NpyDrop ==
    \E io \in IoOutcomes :
        /\ backend = "npy" /\ status \in {"live", "panicked"}
        /\ array_file' = [array_file EXCEPT !.open = FALSE]
        /\ mmaps' = DropContext(mmaps, array_write_context)
        /\ array_write_context' = NoContext
        /\ occurences_buf' = IF produce_entity_occurrence_count
                             THEN DropBufWriter(occurences_buf, <<>>, io)
                             ELSE occurences_buf
        /\ entities_buf' = DropBufWriter(entities_buf, "", io)
        /\ status' = "dropped"
        /\ UNCHANGED <<entities, occurences, history>>
        /\ NpyUnchanged

---------------------------------------------------------------------------
(* ParquetVectorPersistor.  writer is arrow2's FileWriter over the file:   *)
(* state is "Initialised", "Started" or "Finished", out the blocks handed  *)
(* to the file, dimension the number of float columns of the schema.       *)

\* The dimension given to ParquetVectorPersistor::new.
ParquetDimensions == {1, 2}

\* NoWriter: the value of writer when another backend was constructed.
NoWriter == [state |-> "None", out |-> <<>>, open |-> FALSE, dimension |-> 0]

\* FileWriter::try_new over a newly created file.
NewWriter(dimension) ==
    [state |-> "Initialised", out |-> <<>>, open |-> TRUE, dimension |-> dimension]

\* The timestamp captured by the constructor, repeated on every row.
Timestamp == "utc"

\* FileWriter::start, called by write and end while nothing has been written.
Started(w) ==
    IF w.out = <<>>
    THEN [w EXCEPT !.state = "Started", !.out = <<<<"magic", <<>>>>>>]
    ELSE w

\* The arrays of put_data_chunk: entity, occur_count, datetime, then one per
\* column of the chunk.
ChunkArrays(chunk) ==
    <<chunk[1], chunk[2], Repeat(Timestamp, Len(chunk[1]))>> \o chunk[3]

\* Chunk::new accepts arrays of one length only.
ChunkNewOk(arrays) == \A a, b \in 1..Len(arrays) : Len(arrays[a]) = Len(arrays[b])

\* Mutant: a chunk of no rows is held back, no row group is written for it.
M_WriteChunks(w, arrays, io) ==
    IF Len(arrays) # 3 + w.dimension THEN [w |-> w, ok |-> FALSE, io |-> FALSE]
    ELSE IF io = "fail" THEN [w |-> w, ok |-> FALSE, io |-> TRUE]
    ELSE IF arrays[1] = <<>> THEN [w |-> Started(w), ok |-> TRUE, io |-> FALSE]
    ELSE [w |-> [Started(w) EXCEPT !.out = Append(@, <<"row_group", arrays>>)],
          ok |-> TRUE, io |-> FALSE]

\* write_chunks: one row group per chunk, written at once; the chunk must
\* have one array per field of the schema.
WriteChunks(w, arrays, io) ==
    IF Len(arrays) # 3 + w.dimension THEN [w |-> w, ok |-> FALSE, io |-> FALSE]
    ELSE IF io = "fail" THEN [w |-> w, ok |-> FALSE, io |-> TRUE]
    ELSE [w |-> [Started(w) EXCEPT !.out = Append(@, <<"row_group", arrays>>)],
          ok |-> TRUE, io |-> FALSE]

\* FileWriter::end: the footer, once.
End(w, io) ==
    IF Started(w).state # "Started" THEN [w |-> w, ok |-> FALSE, io |-> FALSE]
    ELSE IF io = "fail" THEN [w |-> w, ok |-> FALSE, io |-> TRUE]
    ELSE [w |-> [Started(w) EXCEPT
                    !.out = Append(@, <<"footer", Len(SelectSeq(@, LAMBDA b : b[1] = "row_group"))>>),
                    !.state = "Finished"],
          ok |-> TRUE, io |-> FALSE]

ParquetUnchanged ==
    UNCHANGED <<backend, produce_entity_occurrence_count, buf_writer, entities,
                occurences, array_file, array_write_context, mmaps,
                occurences_buf, entities_buf, mapVars>>

ParquetPutMetadata ==
    \E shape \in ShapeInputs :
        /\ backend = "parquet" /\ CanCall
        /\ Returns("put_metadata", shape, "Ok", "ok")
        /\ UNCHANGED writer
        /\ ParquetUnchanged

\* Mutant: put_data writes the record as a row group of one row.
M_ParquetPutDataOn(w, entity, occur_count, vector) ==
    [Started(w) EXCEPT !.out = Append(@, <<"row_group", <<<<entity>>, <<occur_count>>>>>>)]

\* What put_data leaves of the writer.
ParquetPutDataOn(w, entity, occur_count, vector) == w

ParquetPutData ==
    \E rec \in RecordInputs :
        /\ backend = "parquet" /\ CanCall
        /\ writer' = ParquetPutDataOn(writer, rec[1], rec[2], rec[3])
        /\ Returns("put_data", rec, "Ok", "ok")
        /\ ParquetUnchanged

ParquetPutDataChunk ==
    \E chunk \in ChunkInputs, io \in IoOutcomes :
        /\ backend = "parquet" /\ CanCall
        /\ LET arrays == ChunkArrays(chunk)
               r == WriteChunks(writer, arrays, io) IN
           IF ChunkNewOk(arrays) /\ r.ok
           THEN /\ writer' = r.w
                /\ Returns("put_data_chunk", chunk, "Ok", "ok")
           ELSE /\ UNCHANGED writer
                /\ Returns("put_data_chunk", chunk, "Panic",
                           IF ChunkNewOk(arrays) /\ r.io THEN "failed" ELSE "ok")
        /\ ParquetUnchanged

ParquetFinish ==
    \E io \in IoOutcomes :
        /\ backend = "parquet" /\ CanCall
        /\ LET r == End(writer, io) IN
            /\ writer' = r.w
            /\ Returns("finish", <<>>, IF r.ok THEN "Ok" ELSE "Panic",
                       IF r.io THEN "failed" ELSE "ok")
        /\ ParquetUnchanged

\* The writer goes out of scope: the file is closed.
ParquetDrop ==
    /\ backend = "parquet" /\ status \in {"live", "panicked"}
    /\ writer' = [writer EXCEPT !.open = FALSE]
    /\ status' = "dropped"
    /\ UNCHANGED history
    /\ ParquetUnchanged

---------------------------------------------------------------------------

(* InMemoryEntityMappingPersistor: an FxHashMap<u64, String> inside a      *)
(* std::sync::RwLock, shared by the threads of Threads.  An Option is <<>>  *)
(* (None) or <<x>> (Some(x)); a returned bool is <<"true">> or <<"false">>. *)
(* HashMap::insert is not one store: while it runs the table is torn, and   *)
(* a read of a torn table yields "torn".                                    *)

\* The number of threads that share the map.
NumThreads == 2

Threads == 1..NumThreads
Hashes == {1, 2}
Names == {"a", "b"}

NoCall == [op |-> "none", hash |-> 0, entity |-> ""]

MapCalls ==
    [op : {"get_entity", "contains"}, hash : Hashes, entity : {""}]
        \cup [op : {"put_data"}, hash : Hashes, entity : Names]

\* Mutant: a read lock that does not wait for the writer.
M_CanRead(lock) == TRUE

\* RwLock::read returns when no writer holds the lock.
CanRead(lock) == lock.writer = 0

\* RwLock::write returns when nobody holds the lock.
CanWrite(lock) == lock.writer = 0 /\ lock.readers = {}

\* A bool as a caller sees it returned.
Bool(b) == IF b THEN "true" ELSE "false"

\* entity_mappings_read.get(&hash).map(|s| s.to_string())
Get(m, hash) == IF m.torn THEN <<"torn">> ELSE m.map[hash]

\* entity_mappings_read.contains_key(&hash)
ContainsKey(m, hash) == IF m.torn THEN <<"torn">> ELSE <<Bool(m.map[hash] # <<>>)>>

\* Mutant: an insert evicts the entries of the other hashes.
M_InsertEvicts(m, hash, entity) ==
    [map |-> [h \in Hashes |-> IF h = hash THEN <<entity>> ELSE <<>>],
     torn |-> FALSE]

\* Mutant: an entry that exists is kept (first write wins).
M_Insert(m, hash, entity) ==
    [map |-> [m.map EXCEPT ![hash] = IF @ = <<>> THEN <<entity>> ELSE @],
     torn |-> FALSE]

\* entity_mappings_write.insert(hash, entity), once it has run to its end
Insert(m, hash, entity) == [map |-> [m.map EXCEPT ![hash] = <<entity>>], torn |-> FALSE]

WriterUnchanged == UNCHANGED writerVars

\* A thread calls one of the three methods.
Invoke(t) ==
    \E c \in MapCalls :
        /\ pc[t] = "idle"
        /\ pc' = [pc EXCEPT ![t] = "called"]
        /\ call' = [call EXCEPT ![t] = c]
        /\ ret' = [ret EXCEPT ![t] = <<>>]
        /\ UNCHANGED <<entity_mappings, rwlock, completed>>
        /\ WriterUnchanged

\* self.entity_mappings.read().unwrap() in get_entity and contains
ReadLock(t) ==
    /\ pc[t] = "called" /\ call[t].op \in {"get_entity", "contains"}
    /\ CanRead(rwlock)
    /\ rwlock' = [rwlock EXCEPT !.readers = @ \cup {t}]
    /\ pc' = [pc EXCEPT ![t] = "locked"]
    /\ UNCHANGED <<entity_mappings, call, ret, completed>>
    /\ WriterUnchanged

\* The body of get_entity; the read guard is dropped as it returns.
GetEntityReturn(t) ==
    /\ pc[t] = "locked" /\ call[t].op = "get_entity"
    /\ ret' = [ret EXCEPT ![t] = Get(entity_mappings, call[t].hash)]
    /\ rwlock' = [rwlock EXCEPT !.readers = @ \ {t}]
    /\ pc' = [pc EXCEPT ![t] = "idle"]
    /\ UNCHANGED <<entity_mappings, call, completed>>
    /\ WriterUnchanged

\* The body of contains; the read guard is dropped as it returns.
ContainsReturn(t) ==
    /\ pc[t] = "locked" /\ call[t].op = "contains"
    /\ ret' = [ret EXCEPT ![t] = ContainsKey(entity_mappings, call[t].hash)]
    /\ rwlock' = [rwlock EXCEPT !.readers = @ \ {t}]
    /\ pc' = [pc EXCEPT ![t] = "idle"]
    /\ UNCHANGED <<entity_mappings, call, completed>>
    /\ WriterUnchanged

\* self.entity_mappings.write().unwrap() in put_data
WriteLock(t) ==
    /\ pc[t] = "called" /\ call[t].op = "put_data"
    /\ CanWrite(rwlock)
    /\ rwlock' = [rwlock EXCEPT !.writer = t]
    /\ pc' = [pc EXCEPT ![t] = "locked"]
    /\ UNCHANGED <<entity_mappings, call, ret, completed>>
    /\ WriterUnchanged

\* insert begins to modify the table.
PutDataInsert(t) ==
    /\ pc[t] = "locked" /\ call[t].op = "put_data"
    /\ entity_mappings' = [entity_mappings EXCEPT !.torn = TRUE]
    /\ pc' = [pc EXCEPT ![t] = "inserting"]
    /\ UNCHANGED <<rwlock, call, ret, completed>>
    /\ WriterUnchanged

\* Mutant: put_data returns with the write guard leaked, the lock still held.
M_PutDataReturn(t) ==
    /\ pc[t] = "inserting"
    /\ entity_mappings' = Insert(entity_mappings, call[t].hash, call[t].entity)
    /\ pc' = [pc EXCEPT ![t] = "idle"]
    /\ completed' = [completed EXCEPT ![call[t].hash] = <<call[t].entity>>]
    /\ UNCHANGED <<rwlock, call, ret>>
    /\ WriterUnchanged

\* insert ends; the write guard is dropped as put_data returns.
PutDataReturn(t) ==
    /\ pc[t] = "inserting"
    /\ entity_mappings' = Insert(entity_mappings, call[t].hash, call[t].entity)
    /\ rwlock' = [rwlock EXCEPT !.writer = 0]
    /\ pc' = [pc EXCEPT ![t] = "idle"]
    /\ completed' = [completed EXCEPT ![call[t].hash] = <<call[t].entity>>]
    /\ UNCHANGED <<call, ret>>
    /\ WriterUnchanged

\* InMemoryEntityMappingPersistor::default()
MapInit ==
    /\ entity_mappings = [map |-> [h \in Hashes |-> <<>>], torn |-> FALSE]
    /\ rwlock = [readers |-> {}, writer |-> 0]
    /\ pc = [t \in Threads |-> "idle"]
    /\ call = [t \in Threads |-> NoCall]
    /\ ret = [t \in Threads |-> <<>>]
    /\ completed = [h \in Hashes |-> <<>>]

---------------------------------------------------------------------------

\* No writer has been constructed.
NoWriterInit ==
    /\ backend = "none"
    /\ produce_entity_occurrence_count = FALSE
    /\ writer = NoWriter
    /\ buf_writer = NewBufWriter("")
    /\ entities = <<>>
    /\ occurences = <<>>
    /\ array_file = NewFile
    /\ array_write_context = NoContext
    /\ mmaps = <<>>
    /\ occurences_buf = NewBufWriter(<<>>)
    /\ entities_buf = NewBufWriter("")
    /\ status = "live"
    /\ history = <<>>

InitMap == NoWriterInit /\ MapInit

NextMap ==
    \E t \in Threads :
        \/ Invoke(t)
        \/ ReadLock(t)
        \/ GetEntityReturn(t)
        \/ ContainsReturn(t)
        \/ WriteLock(t)
        \/ PutDataInsert(t)
        \/ PutDataReturn(t)

\* The identifier map under concurrent callers.
SpecMap == InitMap /\ [][NextMap]_vars

\* Thread t has called put_data and waits in write().
WaitsToWrite(t) == pc[t] = "called" /\ call[t].op = "put_data"

\* A thread that holds a guard runs on to its return.
Runs(t) ==
    /\ WF_vars(GetEntityReturn(t))
    /\ WF_vars(ContainsReturn(t))
    /\ WF_vars(PutDataInsert(t))
    /\ WF_vars(PutDataReturn(t))

\* Fair lock scheduling: a thread that can take the lock again and again
\* takes it, and readers that overlap do not keep the lock from a waiting
\* writer for ever.
FairLock(t) ==
    /\ SF_vars(ReadLock(t))
    /\ SF_vars(WriteLock(t))
    /\ []<>(~WaitsToWrite(t) \/ CanWrite(rwlock))

\* The lock looks at no hash and no name: the calls on one hash with one
\* name make every pair of operations meet at it.
FairCalls == {c \in MapCalls : c.hash = 1 /\ c.entity \in {"", "a"}}

NextMapFair ==
    \E t \in Threads :
        \/ Invoke(t) /\ call'[t] \in FairCalls
        \/ ReadLock(t)
        \/ GetEntityReturn(t)
        \/ ContainsReturn(t)
        \/ WriteLock(t)
        \/ PutDataInsert(t)
        \/ PutDataReturn(t)

\* The identifier map under concurrent callers, each thread running, the
\* lock scheduled fairly.
SpecMapFair ==
    InitMap /\ [][NextMapFair]_vars /\ \A t \in Threads : Runs(t) /\ FairLock(t)

Init ==
    /\ \/ /\ backend \in {"text", "npy"}
          /\ produce_entity_occurrence_count \in BOOLEAN
          /\ writer = NoWriter
       \/ /\ backend = "parquet"
          /\ produce_entity_occurrence_count = FALSE
          /\ writer \in {NewWriter(d) : d \in ParquetDimensions}
    /\ buf_writer = NewBufWriter("")
    /\ entities = <<>>
    /\ occurences = <<>>
    /\ array_file = NewFile
    /\ array_write_context = NoContext
    /\ mmaps = <<>>
    /\ occurences_buf = NewBufWriter(<<>>)
    /\ entities_buf = NewBufWriter("")
    /\ status = "live"
    /\ history = <<>>
    /\ MapInit

Next ==
    \/ TextPutMetadata
    \/ TextPutData
    \/ TextPutDataChunk
    \/ TextFinish
    \/ TextDrop
    \/ NpyPutMetadata
    \/ NpyPutData
    \/ NpyPutDataChunk
    \/ NpyFinish
    \/ NpyDrop
    \/ ParquetPutMetadata
    \/ ParquetPutData
    \/ ParquetPutDataChunk
    \/ ParquetFinish
    \/ ParquetDrop

\* One embedding writer, driven by one producer.
Spec == Init /\ [][Next]_vars

---------------------------------------------------------------------------
(* Properties. *)

Last(s) == s[Len(s)]

\* Call k of the history is a call of op.
IsCall(k, op) == k \in 1..Len(history) /\ history[k].op = op

\* The matrix a reader of the array file finds: the shape its header
\* declares, then the rows.
ReadMatrix(cells) ==
    LET shape == cells[1][3] IN
    [r \in 1..shape[1] |->
        [j \in 1..shape[2] |-> cells[HdrCells + (r - 1) * shape[2] + j][2]]]

\* The history is declare_shape(n, d) and then at most n write_record calls,
\* each with a vector of length d.
RecordRun ==
    /\ IsCall(1, "put_metadata") /\ history[1].res = "Ok"
    /\ Len(history) - 1 <= history[1].arg[1]
    /\ \A k \in 2..Len(history) :
           history[k].op = "put_data" /\ Len(history[k].arg[3]) = history[1].arg[2]

\* C1: Mapped-Array Writer: after declare_shape(N, D), every write_record of
\* the first N succeeds and row i of the matrix file is the vector of the i-th
\* write_record call, whatever the names; the rows no call has reached yet
\* are still zero.
C1_RowIsIthVector ==
    (backend = "npy" /\ RecordRun) =>
        /\ \A k \in 2..Len(history) : history[k].res = "Ok"
        /\ \A i \in 1..history[1].arg[1] :
               ReadMatrix(array_file.cells)[i] =
                   IF i <= Len(history) - 1 THEN history[i + 1].arg[3]
                   ELSE [j \in 1..history[1].arg[2] |-> 0]

\* C1 witness: declare_shape(2, 2), then ("x", 5, [1.5, -2.0]) and
\* ("", 12, [1.0, 3.0]) have filled both rows.
C1_Witness ==
    /\ backend = "npy" /\ RecordRun /\ Len(history) = 3
    /\ history[1].arg = <<2, 2>>
    /\ history[3].arg[1] = ""
    /\ ReadMatrix(array_file.cells) = << <<3, -4>>, <<2, 6>> >>

\* A batch as the data model defines it: as many counts, and as many values
\* in every column, as names.
WellFormed(chunk) ==
    /\ Len(chunk[2]) = Len(chunk[1])
    /\ \A j \in 1..Len(chunk[3]) : Len(chunk[3][j]) = Len(chunk[1])

\* The records of a batch: coordinate j of record i is dims[j][i].
RecordsOf(chunk) ==
    [i \in 1..Len(chunk[1]) |->
        <<chunk[1][i], chunk[2][i], [j \in 1..Len(chunk[3]) |-> chunk[3][j][i]]>>]

\* write_record for each record of recs in order, up to the first that does
\* not return success.
RECURSIVE TextAfterRecords(_, _, _, _)
TextAfterRecords(bw, flag, recs, io) ==
    IF recs = <<>> THEN [bw |-> bw, ok |-> TRUE]
    ELSE LET r == TextPutDataOn(bw, flag, Head(recs)[1], Head(recs)[2], Head(recs)[3], io) IN
         IF r.ok THEN TextAfterRecords(r.bw, flag, Tail(recs), io) ELSE r

RECURSIVE NpyAfterRecords(_, _, _)
NpyAfterRecords(st, recs, fault) ==
    IF recs = <<>> THEN [st |-> st, res |-> "Ok"]
    ELSE LET r == NpyPutDataOn(st, Head(recs)[1], Head(recs)[2], Head(recs)[3], fault) IN
         IF r.res = "Ok" THEN NpyAfterRecords(r.st, Tail(recs), fault) ELSE r

\* The step is a call of op.
CallStep(op) == Len(history') = Len(history) + 1 /\ Last(history').op = op

\* C2: Line-Oriented and Mapped-Array writers: write_batch(names, counts,
\* dims) leaves the writer as the calls write_record(names[i], counts[i],
\* [dims[0][i], ..., dims[D-1][i]]) for i = 0, 1, ... in that order leave it,
\* up to the first of them that does not succeed, and it returns success
\* exactly when all of them do.
C2_BatchIsRecordsInOrder ==
    [][(CallStep("put_data_chunk") /\ WellFormed(Last(history').arg)) =>
          LET c == Last(history')
              recs == RecordsOf(c.arg) IN
          CASE backend = "text" ->
                   LET r == TextAfterRecords(buf_writer, produce_entity_occurrence_count,
                                             recs, IF c.io = "failed" THEN "fail" ELSE "ok") IN
                   buf_writer' = r.bw /\ (c.res = "Ok") = r.ok
            [] backend = "npy" ->
                   LET r == NpyAfterRecords(NpyState, recs,
                                            IF c.res = "Sigbus" THEN "sigbus" ELSE "lost") IN
                   NpyState' = r.st /\ (c.res = "Ok") = (r.res = "Ok")
            [] OTHER -> TRUE]_vars

\* C2 witness: after declare_shape(2, 2) the batch names = ["a", "b"],
\* counts = [1, 2], columns = [[1.0, 2.0], [3.0, 4.0]] has been written as
\* a = (1, [1.0, 3.0]) and b = (2, [2.0, 4.0]), in that order.
C2_Witness ==
    /\ backend = "text" /\ produce_entity_occurrence_count
    /\ Len(history) = 2 /\ IsCall(1, "put_metadata") /\ IsCall(2, "put_data_chunk")
    /\ history[2].arg = << <<"a", "b">>, <<1, 2>>, << <<2, 4>>, <<6, 8>> >> >>
    /\ Stream(buf_writer) = "2 2\na 1 1.0 3.0\nb 2 2.0 4.0"

\* The coordinates of a record's line.
RECURSIVE Coordinates(_)
Coordinates(vector) ==
    IF vector = <<>> THEN ""
    ELSE " " \o FormatFinite(Head(vector)) \o Coordinates(Tail(vector))

\* The line of a record, with its leading line break.
Line(flag, rec) ==
    "\n" \o rec[1] \o (IF flag THEN " " \o Dec(rec[2]) ELSE "") \o Coordinates(rec[3])

\* The lines of calls 2..k of the history (and the line break of finalize).
RECURSIVE Lines(_, _)
Lines(flag, k) ==
    IF k < 2 THEN ""
    ELSE Lines(flag, k - 1)
             \o (IF history[k].op = "finish" THEN "\n" ELSE Line(flag, history[k].arg))

\* The history is declare_shape, then write_record calls, then at most one
\* finalize, and no write to the file system has failed.
TextRun ==
    /\ IsCall(1, "put_metadata")
    /\ \A k \in 2..Len(history) :
           \/ history[k].op = "put_data"
           \/ history[k].op = "finish" /\ k = Len(history)
    /\ \A k \in 1..Len(history) : history[k].io = "ok"

\* C3: Line-Oriented Writer: after declare_shape(N, D), write_record calls and
\* at most one finalize, the bytes written are "<N> <D>" with no line break,
\* then per record a line break, the name, " <count>" exactly when occurrence
\* output is enabled, and " <value>" per coordinate, then the one line break
\* of finalize.
C3_TextBytes ==
    (backend = "text" /\ TextRun) =>
        /\ \A k \in 1..Len(history) : history[k].res = "Ok"
        /\ Stream(buf_writer) =
               Dec(history[1].arg[1]) \o " " \o Dec(history[1].arg[2])
                   \o Lines(produce_entity_occurrence_count, Len(history))

\* C3 witness: N = 2, D = 2, occurrence output enabled, the record
\* ("x", 5, [1.5, -2.0]) and finalize.
C3_Witness ==
    /\ backend = "text" /\ produce_entity_occurrence_count /\ TextRun
    /\ Len(history) = 3 /\ Last(history).op = "finish"
    /\ history[1].arg = <<2, 2>>
    /\ Stream(buf_writer) = "2 2\nx 5 1.5 -2.0\n"

\* Thread t returns from a call of op in this step.
ReturnStep(t, op) == pc[t] = "locked" /\ pc'[t] = "idle" /\ call[t].op = op

\* C4: Identifier Map: a lookup(h) returns the name of the latest insert(h, .)
\* that has returned, none when no insert for h has returned; has(h) is true
\* exactly when an insert for h has returned.
C4_LastWriteWins ==
    [][\A t \in Threads :
          /\ ReturnStep(t, "get_entity") => ret'[t] = completed[call[t].hash]
          /\ ReturnStep(t, "contains") => ret'[t] = <<Bool(completed[call[t].hash] # <<>>)>>]_vars

\* C4 witness: insert(1, "a") has returned, then insert(1, "b"), and the
\* lookup(1) that followed returned "b".
C4_Witness ==
    /\ pc[1] = "idle" /\ call[1] = [op |-> "get_entity", hash |-> 1, entity |-> ""]
    /\ ret[1] = <<"b">>
    /\ pc[2] = "idle" /\ call[2] = [op |-> "put_data", hash |-> 1, entity |-> "a"]
    /\ completed[1] = <<"b">>

\* Thread t is inside the table for a write, for a read.
InsideWrite(t) == pc[t] \in {"locked", "inserting"} /\ call[t].op = "put_data"
InsideRead(t) == pc[t] = "locked" /\ call[t].op \in {"get_entity", "contains"}

\* C5: Identifier Map under concurrent callers: while an insert is inside the
\* table no other lookup, has or insert is, and no lookup or has returns a
\* partially written value.
C5_WriteExcludesAll ==
    /\ \A t, u \in Threads :
           (InsideWrite(t) /\ u # t) => ~InsideWrite(u) /\ ~InsideRead(u)
    /\ \A t \in Threads : ret[t] # <<"torn">>

\* C5 witness: an insert for hash 1 is writing the table while a lookup of
\* hash 2 has been called and waits for it.
C5_Witness ==
    /\ pc[1] = "inserting" /\ call[1].hash = 1
    /\ pc[2] = "called" /\ call[2] = [op |-> "get_entity", hash |-> 2, entity |-> ""]

\* Two lookups hold the table together.
C5_ReadersShare == InsideRead(1) /\ InsideRead(2)

\* The blocks a columnar file holds after the first k calls of the history,
\* counting only its write_batch and finalize calls.
RECURSIVE BatchBlocks(_)
BatchBlocks(k) ==
    IF k = 0 THEN <<>>
    ELSE LET before == BatchBlocks(k - 1)
             c == history[k]
             started == IF before = <<>> THEN <<<<"magic", <<>>>>>> ELSE before IN
         IF c.res # "Ok" THEN before
         ELSE IF c.op = "put_data_chunk"
         THEN Append(started, <<"row_group", ChunkArrays(c.arg)>>)
         ELSE IF c.op = "finish"
         THEN Append(started, <<"footer", Len(SelectSeq(started, LAMBDA b : b[1] = "row_group"))>>)
         ELSE before

\* C6: Columnar Writer: every write_record returns success, and the file
\* holds the blocks its write_batch and finalize calls alone have produced,
\* whatever write_record calls were made before, between or after them.
C6_SingleRecordIsNoOp ==
    backend = "parquet" =>
        /\ \A k \in 1..Len(history) : history[k].op = "put_data" => history[k].res = "Ok"
        /\ writer.out = BatchBlocks(Len(history))

\* C6 witness: a write_batch, a write_record and a write_batch: two row groups.
C6_Witness ==
    /\ backend = "parquet" /\ Len(history) = 3
    /\ IsCall(1, "put_data_chunk") /\ IsCall(2, "put_data") /\ IsCall(3, "put_data_chunk")
    /\ Len(writer.out) = 3 /\ writer.out[2][1] = "row_group" /\ writer.out[3][1] = "row_group"

\* C7: Line-Oriented and Mapped-Array writers: a write_record or write_batch
\* during which a write to the file system fails returns an error value to
\* the caller; it does not panic.
C7_IoFailureIsErrValue ==
    backend \in {"text", "npy"} =>
        \A k \in 1..Len(history) :
            (history[k].op \in {"put_data", "put_data_chunk"} /\ history[k].io = "failed")
                => history[k].res = "Err"

\* No declare_shape call precedes call k.
BeforeDeclare(k) == \A j \in 1..(k - 1) : history[j].op # "put_metadata"

\* C8: Mapped-Array Writer: every write_record or write_batch made before
\* declare_shape, a write_batch of an empty batch included, panics and adds
\* nothing to the name and occurrence accumulators.
C8_WriteBeforeDeclarePanics ==
    backend = "npy" =>
        \A k \in 1..Len(history) :
            (history[k].op \in {"put_data", "put_data_chunk"} /\ BeforeDeclare(k))
                => history[k].res = "Panic" /\ entities = <<>> /\ occurences = <<>>

\* A finalize that returned success precedes call k.
AfterFinalize(k) == \E j \in 1..(k - 1) : history[j].op = "finish" /\ history[j].res = "Ok"

\* C9: every backend: a write_record, write_batch or finalize made after
\* finalize has run panics; it is never accepted.
C9_NothingAfterFinalize ==
    \A k \in 1..Len(history) :
        (history[k].op \in {"put_data", "put_data_chunk", "finish"} /\ AfterFinalize(k))
            => history[k].res = "Panic"

\* Nothing is left in the writer's buffers, and its files are closed.
AllHandedOver ==
    CASE backend = "text" -> buf_writer.buf = ""
      [] backend = "npy" ->
             entities_buf.buf = ""
                 /\ (produce_entity_occurrence_count => occurences_buf.buf = <<>>)
      [] OTHER -> TRUE
AllClosed ==
    CASE backend = "text" -> ~buf_writer.open
      [] backend = "npy" ->
             ~entities_buf.open /\ ~array_file.open
                 /\ (produce_entity_occurrence_count => ~occurences_buf.open)
      [] backend = "parquet" -> ~writer.open
      [] OTHER -> TRUE

\* C10: every backend: once finalize has returned success, every byte written
\* so far has been handed to the destination file, none is left in the
\* writer's buffer, and the destination is closed.
C10_FinalizeFlushesAndCloses ==
    (Len(history) > 0 /\ Last(history).op = "finish" /\ Last(history).res = "Ok"
         /\ status = "live")
        => AllHandedOver /\ AllClosed

\* The history is declare_shape(0, D) and then finalize, and no write to the
\* file system has failed.
EmptyRun ==
    /\ Len(history) = 2
    /\ IsCall(1, "put_metadata") /\ history[1].arg[1] = 0
    /\ IsCall(2, "finish")
    /\ \A k \in 1..2 : history[k].io = "ok"

\* C11: every backend: declare_shape(0, D) followed directly by finalize
\* returns success twice and leaves a well-formed output of zero rows: the
\* text "0 <D>" and a line break; a 0 x D matrix file, the name list "[]" and,
\* when enabled, an occurrence array of length 0; a columnar file of the
\* opening block and a footer that counts no row group.
C11_EmptyOutput ==
    EmptyRun =>
        /\ \A k \in 1..2 : history[k].res = "Ok"
        /\ CASE backend = "text" ->
                    Stream(buf_writer) = "0 " \o Dec(history[1].arg[2]) \o "\n"
             [] backend = "npy" ->
                    /\ array_file.cells = NpyHeader("f4", <<0, history[1].arg[2]>>)
                    /\ ReadMatrix(array_file.cells) = <<>>
                    /\ Stream(entities_buf) = "[]"
                    /\ Stream(occurences_buf) =
                           IF produce_entity_occurrence_count
                           THEN NpyHeader("u4", <<0>>) ELSE <<>>
             [] backend = "parquet" ->
                    writer.out = << <<"magic", <<>>>>, <<"footer", 0>> >>

\* C11 witness: the Mapped-Array Writer with occurrence tracking after
\* declare_shape(0, 2) and finalize.
C11_Witness ==
    /\ EmptyRun /\ backend = "npy" /\ produce_entity_occurrence_count
    /\ history[2].res = "Ok"
    /\ Stream(entities_buf) = "[]"

\* Call 1 is the one declare_shape call made before call k, and it succeeded.
DeclaredOnce(k) ==
    /\ IsCall(1, "put_metadata") /\ history[1].res = "Ok"
    /\ \A j \in 2..(k - 1) : history[j].op # "put_metadata"

\* C12: Mapped-Array Writer: after declare_shape(N, D), every write_record
\* whose vector has a length other than D (length 1 and length 0 included)
\* panics.
C12_LengthMismatchPanics ==
    backend = "npy" =>
        \A k \in 2..Len(history) :
            (DeclaredOnce(k) /\ history[k].op = "put_data"
                 /\ Len(history[k].arg[3]) # history[1].arg[2])
                => history[k].res = "Panic"

\* The history is write_batch calls, each of a well-formed batch with one
\* column per dimension of the schema, then at most one finalize, and no
\* write to the file system has failed.
BatchRun ==
    /\ Len(history) > 0
    /\ \A k \in 1..Len(history) :
           /\ history[k].io = "ok"
           /\ \/ /\ history[k].op = "put_data_chunk"
                 /\ WellFormed(history[k].arg)
                 /\ Len(history[k].arg[3]) = writer.dimension
              \/ history[k].op = "finish" /\ k = Len(history) /\ k > 1

\* The number of write_batch calls of the history.
Batches == Cardinality({k \in 1..Len(history) : history[k].op = "put_data_chunk"})

\* The rows of a row group: name, count and vector of each.
RowsOf(block) ==
    LET arrays == block[2] IN
    [i \in 1..Len(arrays[1]) |->
        <<arrays[1][i], arrays[2][i], [j \in 1..(Len(arrays) - 3) |-> arrays[3 + j][i]]>>]

\* C13: Columnar Writer: every write_batch returns with its one row group
\* in the file: after k write_batch calls the file holds the opening block
\* and exactly k row groups in call order, row group m holding exactly the
\* records of the m-th batch with the writer's timestamp on every row, and a
\* finalize after them adds exactly one footer, which counts k row groups.
C13_OneRowGroupPerBatch ==
    (backend = "parquet" /\ BatchRun) =>
        /\ \A k \in 1..Len(history) : history[k].res = "Ok"
        /\ Len(writer.out) = Len(history) + 1
        /\ writer.out[1][1] = "magic"
        /\ \A m \in 1..Batches :
               /\ writer.out[m + 1][1] = "row_group"
               /\ RowsOf(writer.out[m + 1]) = RecordsOf(history[m].arg)
               /\ writer.out[m + 1][2][3] = Repeat(Timestamp, Len(history[m].arg[1]))
        /\ Last(history).op = "finish" => Last(writer.out) = <<"footer", Batches>>

\* C13 witness: the batch of a and b, the batch of x, and finalize: two row
\* groups of two rows and one row, and the footer.
C13_Witness ==
    /\ backend = "parquet" /\ BatchRun /\ Len(history) = 3
    /\ Last(history).op = "finish" /\ Last(history).res = "Ok"
    /\ Len(RowsOf(writer.out[2])) = 2 /\ Len(RowsOf(writer.out[3])) = 1
    /\ writer.out[4] = <<"footer", 2>>

\* A declare_shape, write_record or write_batch call that returned success
\* precedes call k.
AfterDeclareOrRecord(k) ==
    \E j \in 1..(k - 1) :
        /\ history[j].op \in {"put_metadata", "put_data", "put_data_chunk"}
        /\ history[j].res = "Ok"

\* C14: every backend: a second declare_shape, or a declare_shape made after
\* a record has been written, panics; it is never accepted.
C14_DeclareOnceFirst ==
    \A k \in 1..Len(history) :
        (history[k].op = "put_metadata" /\ AfterDeclareOrRecord(k))
            => history[k].res = "Panic"

\* C15: OwnedMmapArrayViewMut: a mapping is mapped as long as a view of it
\* is alive, the mapping the writer's handle points to is mapped and has its
\* view, no mapping is unmapped under its view, and none is released twice,
\* also when declare_shape replaces an earlier handle.
C15_MappingOutlivesView ==
    /\ \A p \in 1..Len(mmaps) :
           /\ mmaps[p].view = "alive" => mmaps[p].state = "mapped"
           /\ mmaps[p].state \in {"mapped", "unmapped"}
           /\ mmaps[p].state = "unmapped" => mmaps[p].view = "dropped"
    /\ array_write_context.some =>
           /\ array_write_context.mmap_ptr \in 1..Len(mmaps)
           /\ mmaps[array_write_context.mmap_ptr].view = "alive"

\* C15 witness: a second declare_shape has replaced the first handle, whose
\* mapping was released then, and the writer has been dropped after it: both
\* mappings have been released, once each.
C15_Witness ==
    /\ backend = "npy" /\ status = "dropped"
    /\ Len(mmaps) = 2
    /\ \A p \in 1..2 : mmaps[p].state = "unmapped" /\ mmaps[p].view = "dropped"

\* The records the first k calls of the history have submitted, in order.
RECURSIVE Submitted(_)
Submitted(k) ==
    IF k = 0 THEN <<>>
    ELSE Submitted(k - 1) \o
             (CASE history[k].op = "put_data" -> <<history[k].arg>>
                [] history[k].op = "put_data_chunk" -> RecordsOf(history[k].arg)
                [] OTHER -> <<>>)

\* The history is one declare_shape, then write_record and write_batch calls
\* that all returned success, then at most one finalize that did.
AcceptedRun ==
    /\ IsCall(1, "put_metadata") /\ history[1].res = "Ok"
    /\ \A k \in 2..Len(history) :
           /\ history[k].res = "Ok"
           /\ \/ history[k].op \in {"put_data", "put_data_chunk"}
              \/ history[k].op = "finish" /\ k = Len(history)

\* The bytes of a run of writes.
RECURSIVE Concat(_)
Concat(pieces) == IF pieces = <<>> THEN "" ELSE Head(pieces) \o Concat(Tail(pieces))

\* The row of dimension d that holds a record's vector.
StoredRow(vector, d) == [j \in 1..d |-> Assigned(vector, j)]

\* C16: Mapped-Array Writer: after declare_shape and any run of successful
\* write_record and write_batch calls that submitted k records, the name and
\* occurrence accumulators have length k, their i-th entries are the name and
\* count of the i-th record submitted, matrix row i holds that record's
\* vector and the rows from k on are untouched; a finalize after them writes
\* the names, and the counts when enabled, in that order.
C16_AccumulatorsFollowRows ==
    (backend = "npy" /\ AcceptedRun) =>
        LET recs == Submitted(Len(history))
            k == Len(recs)
            shape == history[1].arg
            matrix == ReadMatrix(array_file.cells) IN
        /\ Len(entities) = k /\ Len(occurences) = k /\ k <= shape[1]
        /\ \A i \in 1..k :
               /\ entities[i] = recs[i][1]
               /\ occurences[i] = recs[i][2]
               /\ matrix[i] = StoredRow(recs[i][3], shape[2])
        /\ \A i \in (k + 1)..shape[1] : matrix[i] = [j \in 1..shape[2] |-> 0]
        /\ Last(history).op = "finish" =>
               /\ Stream(entities_buf) =
                      Concat(JsonPretty([i \in 1..k |-> recs[i][1]]))
               /\ produce_entity_occurrence_count =>
                      Stream(occurences_buf) =
                          NpyHeader("u4", <<k>>) \o [i \in 1..k |-> U32(recs[i][2])]

\* C16 witness: with occurrence tracking, declare_shape(2, 2), the batch of
\* a = (1, [1.0, 3.0]) and b = (2, [2.0, 4.0]), and finalize.
C16_Witness ==
    /\ backend = "npy" /\ produce_entity_occurrence_count /\ AcceptedRun
    /\ Len(history) = 3 /\ Last(history).op = "finish"
    /\ entities = <<"a", "b">> /\ occurences = <<1, 2>>
    /\ ReadMatrix(array_file.cells) = << <<2, 6>>, <<4, 8>> >>
    /\ Stream(entities_buf) = "[\n  \"a\",\n  \"b\"\n]"

\* C17: Mapped-Array Writer: a finalize leaves the matrix file, the mapping
\* handle, every mapping and both accumulators as they were; when it returns
\* success it has written the name list to the name side file's writer, and
\* the occurrence array to the occurrence side file's writer exactly when
\* occurrence tracking is enabled (that writer is untouched otherwise); the
\* mapping of the handle is released in the step that drops the writer.
C17_FinalizeLeavesMatrix ==
    [][/\ (backend = "npy" /\ CallStep("finish")) =>
             /\ UNCHANGED <<array_file, array_write_context, mmaps, entities, occurences>>
             /\ ~produce_entity_occurrence_count => UNCHANGED occurences_buf
             /\ Last(history').res = "Ok" =>
                    /\ Stream(entities_buf') =
                           Stream(entities_buf) \o Concat(JsonPretty(entities))
                    /\ produce_entity_occurrence_count =>
                           Stream(occurences_buf') =
                               Stream(occurences_buf)
                                   \o NpyHeader("u4", <<Len(occurences)>>)
                                   \o [i \in 1..Len(occurences) |-> U32(occurences[i])]
       /\ (backend = "npy" /\ array_write_context.some
               /\ status # "dropped" /\ status' = "dropped") =>
             /\ mmaps[array_write_context.mmap_ptr].state = "mapped"
             /\ mmaps'[array_write_context.mmap_ptr].state = "unmapped"]_vars

\* C17 witness: declare_shape(1, 1), a record and finalize: the row is in the
\* matrix and the mapping of the handle is still mapped.
C17_Witness ==
    /\ backend = "npy" /\ status = "live" /\ Len(history) = 3
    /\ IsCall(2, "put_data") /\ history[2].res = "Ok"
    /\ IsCall(3, "finish") /\ history[3].res = "Ok"
    /\ array_write_context.some
    /\ mmaps[array_write_context.mmap_ptr].state = "mapped"
    /\ ReadMatrix(array_file.cells) = << <<1>> >>

\* C18: Mapped-Array Writer: after its one declare_shape(N, D) the name and
\* occurrence accumulators never hold more than N entries and the matrix file
\* keeps its N rows; a write_record made when N records have been written
\* panics and leaves the accumulators and every row as they were.
C18_NeverPastShape ==
    [][(backend = "npy" /\ DeclaredOnce(Len(history) + 1)') =>
          LET shape == history'[1].arg IN
          /\ Len(entities') <= shape[1] /\ Len(occurences') <= shape[1]
          /\ Len(array_file'.cells) = HdrCells + shape[1] * shape[2]
          /\ (CallStep("put_data") /\ Len(entities) = shape[1]) =>
                 /\ Last(history').res = "Panic"
                 /\ UNCHANGED <<array_file, entities, occurences>>]_vars

\* C18 witness: declare_shape(1, 1), a record, and a second record, which
\* panicked: one name, and row 0 still holds the first vector.
C18_Witness ==
    /\ backend = "npy" /\ Len(history) = 3 /\ DeclaredOnce(4)
    /\ history[1].arg = <<1, 1>>
    /\ IsCall(2, "put_data") /\ history[2].res = "Ok"
    /\ IsCall(3, "put_data") /\ history[3].res = "Panic"
    /\ Len(entities) = 1
    /\ ReadMatrix(array_file.cells) = << history[2].arg[3] >>

\* C19: Identifier Map: the entry of a hash h changes only in the step that
\* completes an insert(h, e), and becomes e there, so an insert leaves every
\* other entry alone and lookup and has leave them all alone; an entry that
\* exists is never removed.
C19_InsertOnlyFrame ==
    [][\A h \in Hashes :
          /\ entity_mappings'.map[h] # entity_mappings.map[h] =>
                 \E t \in Threads :
                     /\ pc[t] = "inserting" /\ pc'[t] = "idle"
                     /\ call[t].hash = h
                     /\ entity_mappings'.map[h] = <<call[t].entity>>
          /\ entity_mappings.map[h] # <<>> => entity_mappings'.map[h] # <<>>]_vars

\* C19 witness: insert(1, "a") and insert(2, "b") have completed, both
\* entries are in the table, and a has(1) made by thread 1 after its insert
\* returned true.
C19_Witness ==
    /\ entity_mappings.map[1] = <<"a">> /\ entity_mappings.map[2] = <<"b">>
    /\ pc[1] = "idle" /\ call[1] = [op |-> "contains", hash |-> 1, entity |-> ""]
    /\ ret[1] = <<"true">>
    /\ pc[2] = "idle" /\ call[2] = [op |-> "put_data", hash |-> 2, entity |-> "b"]

\* Thread t holds the lock.
Holds(t) == t \in rwlock.readers \/ rwlock.writer = t

\* A step of a call that has started.
Proceed ==
    \E t \in Threads :
        \/ ReadLock(t) \/ GetEntityReturn(t) \/ ContainsReturn(t)
        \/ WriteLock(t) \/ PutDataInsert(t) \/ PutDataReturn(t)

\* C20: Identifier Map: a thread holds the lock exactly from the lock step of
\* its call to the return of that call, so none is held between calls; while
\* a call is in progress some call can take a step; and with every thread
\* running and the lock scheduled fairly every call that has started returns.
C20_EveryCallCompletes ==
    /\ [](\A t \in Threads : Holds(t) <=> pc[t] \in {"locked", "inserting"})
    /\ []((\E t \in Threads : pc[t] # "idle") => ENABLED Proceed)
    /\ \A t \in Threads : (pc[t] # "idle") ~> (pc[t] = "idle")

\* C20 witness: thread 1 has made an insert for hash 1 and thread 2 a lookup
\* of it, which found the name; both have returned and the lock is free.
C20_Witness ==
    /\ pc[1] = "idle" /\ call[1] = [op |-> "put_data", hash |-> 1, entity |-> "a"]
    /\ pc[2] = "idle" /\ call[2] = [op |-> "get_entity", hash |-> 1, entity |-> ""]
    /\ ret[2] = <<"a">>
    /\ rwlock = [readers |-> {}, writer |-> 0]

====
